---- MODULE Spec2Model ----
(***************************************************************************)
(* Model of the LightBnB data-access layer                                 *)
(* (LightBnB_WebApp/server/database.js).                                   *)
(*                                                                         *)
(* Every exported function builds a statement and a parameter list, hands  *)
(* them to pool.query and returns the promise chain                        *)
(*     pool.query(...).then(onFulfilled).catch(onRejected).                *)
(* The model follows one invocation at a time: the synchronous part of the *)
(* function is one action, the pool settling the query is an environment   *)
(* action, and each .then / .catch callback is an action of its own.       *)
(*                                                                         *)
(* JavaScript values are records [t, n, s]: t is the type tag, n the       *)
(* numeric payload, s the payload of strings (a sequence of characters),   *)
(* arrays and row objects (a sequence of row identifiers).                 *)
(***************************************************************************)
EXTENDS Integers, Sequences, FiniteSets, TLC

----------------------------------------------------------------------------
(* Bounds of the model *)

\* longest city string drawn as input
MaxCityLen == 2
\* largest number of rows the pool answers with
MaxRows == 2
\* largest number of fields of a property object handed to addProperty
MaxFields == 2

----------------------------------------------------------------------------
(* JavaScript values *)

Undefined == [t |-> "undefined", n |-> 0, s |-> <<>>]
Null == [t |-> "null", n |-> 0, s |-> <<>>]
Num(k) == [t |-> "number", n |-> k, s |-> <<>>]
Str(cs) == [t |-> "string", n |-> 0, s |-> cs]
Row(id) == [t |-> "object", n |-> 0, s |-> <<id>>]
Arr(ids) == [t |-> "array", n |-> 0, s |-> ids]
Err(msg) == [t |-> "error", n |-> 0, s |-> msg]

\* ToBoolean, as applied by `if (v)` and `a || b`
\* (variant: a test against undefined instead of ToBoolean)
TruthyNotUndefined(v) == v.t # "undefined"
Truthy(v) ==
  CASE v.t = "undefined" -> FALSE
    [] v.t = "null" -> FALSE
    [] v.t = "number" -> v.n # 0
    [] v.t = "string" -> v.s # <<>>
    [] OTHER -> TRUE

\* a || b
Or(a, b) == IF Truthy(a) THEN a ELSE b

----------------------------------------------------------------------------
(* Strings *)

Chars == {"#", "V", " "}
Whitespace == {" "}

RECURSIVE TrimStart(_)
TrimStart(cs) ==
  IF cs # <<>> /\ Head(cs) \in Whitespace THEN TrimStart(Tail(cs)) ELSE cs

RECURSIVE TrimEnd(_)
TrimEnd(cs) ==
  IF cs # <<>> /\ cs[Len(cs)] \in Whitespace
    THEN TrimEnd(SubSeq(cs, 1, Len(cs) - 1))
    ELSE cs

\* String.prototype.trim
\* (variant: no trimming)
TrimNone(cs) == cs
Trim(cs) == TrimEnd(TrimStart(cs))

\* String.prototype.slice(1)
Slice1(cs) == IF cs = <<>> THEN <<>> ELSE Tail(cs)

\* String.prototype.toLowerCase, on the characters of the model
LowerChar(c) == IF c = "V" THEN "v" ELSE c
ToLowerCase(cs) == [i \in 1..Len(cs) |-> LowerChar(cs[i])]

\* all strings over Chars of length at most k
StringsUpTo(k) == UNION {[1..m -> Chars] : m \in 0..k}

----------------------------------------------------------------------------
(* Query text *)

(* The text handed to pool.query is kept as the sequence of the fragments  *)
(* the code concatenates.  A fragment has the keyword that introduces it,  *)
(* the column and the comparison operator of a predicate, and the number   *)
(* of the $n placeholder it contains (0 when it contains none).            *)
Frag(kw, col, op, ph) == [kw |-> kw, col |-> col, op |-> op, ph |-> ph]

\* the number interpolated by $${queryParams.length}
\* (variant: one more than the length after the push)
PlaceholderNext(queryParams) == Len(queryParams) + 1
Placeholder(queryParams) == Len(queryParams)

----------------------------------------------------------------------------
(* getAllProperties: the statement builder *)

DefaultLimit == 10
CentsPerUnit == 100

\* limit = 10 in the parameter list: the default applies to undefined only
\* (variant: no default value)
LimitArgNoDefault(limit) == limit
LimitArg(limit) == IF limit = Undefined THEN Num(DefaultLimit) ELSE limit

\* SELECT ... FROM properties JOIN property_reviews ...
BaseQuery ==
  <<Frag("SELECT properties.*, avg(property_reviews.rating) as average_rating FROM properties JOIN property_reviews ON properties.id = property_id",
         "", "", 0)>>

\* const and = () => queryParams.length > 1 ? 'AND' : 'WHERE'
\* (variant: AND as soon as one parameter is pushed)
AndAlways(queryParams) == IF Len(queryParams) > 0 THEN "AND" ELSE "WHERE"
And(queryParams) == IF Len(queryParams) > 1 THEN "AND" ELSE "WHERE"

\* `%${options.city.trim().slice(1)}%`
CityParam(city) == Str(<<"%">> \o Slice1(Trim(city.s)) \o <<"%">>)

\* options.minimum_price_per_night * 100
\* (variant: a factor of 10)
PriceParamTimesTen(v) == Num(v.n * 10)
PriceParam(v) == Num(v.n * CentsPerUnit)

\* one `if (options.x) { queryParams.push(value); queryString += ... }`
Predicate(b, present, value, col, op) ==
  IF present
    THEN LET queryParams == Append(b.queryParams, value)
         IN [queryString |-> Append(b.queryString,
                                    Frag(And(queryParams), col, op, Placeholder(queryParams))),
             queryParams |-> queryParams]
    ELSE b

\* the four WHERE-eligible filters, in the order of the code
WherePhase(options) ==
  LET b0 == [queryString |-> BaseQuery, queryParams |-> <<>>]
      b1 == Predicate(b0, Truthy(options.city), CityParam(options.city), "city", "LIKE")
      b2 == Predicate(b1, Truthy(options.owner_id), options.owner_id, "owner_id", "=")
      b3 == Predicate(b2, Truthy(options.minimum_price_per_night),
                      PriceParam(options.minimum_price_per_night), "cost_per_night", ">=")
      b4 == Predicate(b3, Truthy(options.maximum_price_per_night),
                      PriceParam(options.maximum_price_per_night), "cost_per_night", "<=")
  IN b4

\* queryString += `GROUP BY properties.id`
GroupByPhase(b) ==
  [b EXCEPT !.queryString = Append(@, Frag("GROUP BY", "properties.id", "", 0))]

\* if (options.minimum_rating) { push; queryString += `HAVING avg(...) >= $n` }
\* (variant: HAVING appended whatever minimum_rating is)
HavingPhaseUnconditional(b, options) ==
  LET queryParams == Append(b.queryParams, options.minimum_rating)
  IN [queryString |-> Append(b.queryString,
                             Frag("HAVING", "avg(property_reviews.rating)", ">=",
                                  Placeholder(queryParams))),
      queryParams |-> queryParams]
HavingPhase(b, options) ==
  IF Truthy(options.minimum_rating)
    THEN LET queryParams == Append(b.queryParams, options.minimum_rating)
         IN [queryString |-> Append(b.queryString,
                                    Frag("HAVING", "avg(property_reviews.rating)", ">=",
                                         Placeholder(queryParams))),
             queryParams |-> queryParams]
    ELSE b

\* queryParams.push(limit); queryString += `ORDER BY cost_per_night LIMIT $n;`
LimitPhase(b, limit) ==
  LET queryParams == Append(b.queryParams, limit)
  IN [queryString |-> b.queryString \o
                      <<Frag("ORDER BY", "cost_per_night", "", 0),
                        Frag("LIMIT", "", "", Placeholder(queryParams))>>,
      queryParams |-> queryParams]

\* the statement and the parameter list getAllProperties hands to pool.query
PropertiesQuery(options, limit) ==
  LimitPhase(HavingPhase(GroupByPhase(WherePhase(options)), options), LimitArg(limit))

----------------------------------------------------------------------------
(* The fixed statements of the other functions *)

\* SELECT * FROM users WHERE email = $1;
UserWithEmailQuery ==
  <<Frag("SELECT * FROM users", "", "", 0), Frag("WHERE", "email", "=", 1)>>

\* SELECT * FROM users WHERE id = $1;
UserWithIdQuery ==
  <<Frag("SELECT * FROM users", "", "", 0), Frag("WHERE", "id", "=", 1)>>

\* INSERT INTO users (name, email, password) VALUES ($1, $2, $3) RETURNING *
AddUserQuery ==
  <<Frag("INSERT INTO users", "", "", 0),
    Frag("COLUMN", "name", "", 0), Frag("COLUMN", "email", "", 0),
    Frag("COLUMN", "password", "", 0),
    Frag("VALUES", "", "", 1), Frag("VALUES", "", "", 2), Frag("VALUES", "", "", 3),
    Frag("RETURNING *", "", "", 0)>>

\* SELECT reservations.*, properties.*, avg(rating) ... WHERE reservations.guest_id = $1
\* GROUP BY properties.id, reservations.id ORDER BY cost_per_night desc LIMIT $2;
AllReservationsQuery ==
  <<Frag("SELECT reservations.*, properties.*, avg(rating) as average_rating FROM properties JOIN reservations JOIN property_reviews",
         "", "", 0),
    Frag("WHERE", "reservations.guest_id", "=", 1),
    Frag("GROUP BY", "properties.id, reservations.id", "", 0),
    Frag("ORDER BY", "cost_per_night desc", "", 0),
    Frag("LIMIT", "", "", 2)>>

----------------------------------------------------------------------------
(* addProperty: validation and the INSERT statement *)

(* A property object is the sequence of its [key, value] entries in        *)
(* insertion order, the order Object.keys and Object.values walk it in.    *)
PropertyKeys == <<"owner_id", "title", "description", "thumbnail_photo_url">>

IncompleteMessage == Str(<<"Property not added. Incomplete input fields">>)

\* Object.values(property).includes('')
\* (variant: the keys are searched instead of the values)
KeysIncludeEmpty(property) ==
  \E i \in 1..Len(property) : property[i].key = ""
ValuesIncludeEmpty(property) ==
  \E i \in 1..Len(property) : property[i].value = Str(<<>>)

\* columns, values, indexes spread into the INSERT template
AddPropertyQuery(property) ==
  LET n == Len(property)
  IN [queryString |->
        <<Frag("INSERT INTO properties", "", "", 0)>>
        \o [i \in 1..n |-> Frag("COLUMN", property[i].key, "", 0)]
        \o [i \in 1..n |-> Frag("VALUES", "", "", i)]
        \o <<Frag("RETURNING *", "", "", 0)>>,
      queryParams |-> [i \in 1..n |-> property[i].value]]

----------------------------------------------------------------------------
(* The .then and .catch callbacks *)

Fulfilled(v) == [state |-> "fulfilled", value |-> v]
Rejected(v) == [state |-> "rejected", value |-> v]
Pending == [state |-> "pending", value |-> Undefined]
NoPromise == [state |-> "none", value |-> Undefined]

\* res.rows[0]
FirstRow(rows) == IF rows = <<>> THEN Undefined ELSE Row(rows[1])

\* (res) => res.rows[0] || null
\* (variant: without || null)
ThenFirstRowOnly(rows) == FirstRow(rows)
ThenFirstRowOrNull(rows) == Or(FirstRow(rows), Null)

\* (res) => res.rows[0]
ThenFirstRow(rows) == FirstRow(rows)

\* (res) => res.rows
ThenRows(rows) == Arr(rows)

\* (res) => res.rows.length ? res.rows : null
ThenRowsOrNull(rows) == IF Len(rows) # 0 THEN Arr(rows) ELSE Null

\* err?.message || err
ErrDetail(err) ==
  LET message == IF err.t = "error" THEN Str(err.s) ELSE Undefined
  IN Or(message, err)

\* (err) => { console.log(prefix, err?.message || err); }
\* (variant: the callback logs and throws err again)
OnRejectedRethrow(prefix, err) ==
  [promise |-> Rejected(err),
   logged |-> <<[prefix |-> prefix, detail |-> ErrDetail(err)]>>]
OnRejected(prefix, err) ==
  [promise |-> Fulfilled(Undefined),
   logged |-> <<[prefix |-> prefix, detail |-> ErrDetail(err)]>>]

LogPrefix(f) ==
  CASE f = "getUserWithEmail" -> "Error getting user with email:"
    [] f = "getUserWithId" -> "Error getting user with id:"
    [] f = "addUser" -> "Error adding user:"
    [] f = "getAllReservations" -> "Error getting reservations:"
    [] f = "getAllProperties" -> "Error getting all properties:"
    [] f = "addProperty" -> "Error adding property:"

----------------------------------------------------------------------------
(* Inputs *)

Cities == {Undefined} \cup {Str(cs) : cs \in StringsUpTo(MaxCityLen)}
OwnerIds == {Undefined, Num(0), Num(7)}
Prices == {Undefined, Num(0), Num(100)}
Ratings == {Undefined, Num(0), Num(4)}
Limits == {Undefined, Num(5)}

OptionsBags ==
  [city : Cities, owner_id : OwnerIds,
   minimum_price_per_night : Prices, maximum_price_per_night : Prices,
   minimum_rating : Ratings]

Emails == {Str(<<"V">>), Str(<<"#", "V">>)}
UserIds == {Num(1), Num(7)}
Users == [name : {Str(<<"V">>)}, email : Emails, password : {Str(<<"#">>)}]

FieldValues == {Str(<<>>), Str(<<"V">>), Num(0)}
Properties ==
  UNION {{[i \in 1..m |-> [key |-> PropertyKeys[i], value |-> vs[i]]] :
            vs \in [1..m -> FieldValues]} : m \in 0..MaxFields}

\* what the pool can answer with
RowSets == {[i \in 1..k |-> ToString(i)] : k \in 0..MaxRows}
Errors == {Err(<<"connection refused">>), Err(<<>>)}

----------------------------------------------------------------------------
(* State *)

VARIABLES
  fn,           \* the function of the current invocation, "none" before the first
  input,        \* its arguments
  queryString,  \* the text it handed to pool.query, <<>> if it handed none
  queryParams,  \* the parameter list it handed to pool.query
  pool,         \* the query inside the pool: idle, pending, resolved or rejected
  promise,      \* the promise the function returned
  logged,       \* what the invocation wrote with console.log
  prev          \* the invocation of fn before this one, if it found no row or failed

vars == <<fn, input, queryString, queryParams, pool, promise, logged, prev>>

IdlePool == [status |-> "idle", rows |-> <<>>, err |-> Undefined]
PendingPool == [status |-> "pending", rows |-> <<>>, err |-> Undefined]

\* how the query of the current invocation ended
Outcome ==
  CASE pool.status = "resolved" /\ pool.rows = <<>> -> "empty"
    [] pool.status = "resolved" /\ pool.rows # <<>> -> "rows"
    [] pool.status = "rejected" -> "failed"
    [] OTHER -> "none"

NoPrev == [fn |-> "none", outcome |-> "none", promise |-> NoPromise]

\* prev is kept for the next invocation of the same function only
KeepPrev(f) == IF prev.fn = f THEN prev ELSE NoPrev

Init ==
  /\ fn = "none"
  /\ input = <<>>
  /\ queryString = <<>>
  /\ queryParams = <<>>
  /\ pool = IdlePool
  /\ promise = NoPromise
  /\ logged = <<>>
  /\ prev = NoPrev

(* A caller awaits the promise of one invocation before it starts the next; *)
(* the invocations share nothing but the pool.                              *)
CanCall == fn = "none"

\* the synchronous part of a function that hands its statement to pool.query
Query(f, in, text, params) ==
  /\ fn' = f
  /\ input' = in
  /\ queryString' = text
  /\ queryParams' = params
  /\ pool' = PendingPool
  /\ promise' = Pending
  /\ logged' = <<>>
  /\ prev' = KeepPrev(f)

getUserWithEmail ==
  /\ CanCall
  /\ \E email \in Emails :
    Query("getUserWithEmail", [email |-> email],
          UserWithEmailQuery, <<Str(ToLowerCase(email.s))>>)

getUserWithId ==
  /\ CanCall
  /\ \E id \in UserIds :
    Query("getUserWithId", [id |-> id], UserWithIdQuery, <<id>>)

addUser ==
  /\ CanCall
  /\ \E user \in Users :
    Query("addUser", [user |-> user],
          AddUserQuery, <<user.name, user.email, user.password>>)

getAllReservations ==
  /\ CanCall
  /\ \E guest_id \in UserIds, limit \in Limits :
    Query("getAllReservations", [guest_id |-> guest_id, limit |-> limit],
          AllReservationsQuery, <<guest_id, LimitArg(limit)>>)

getAllProperties ==
  /\ CanCall
  /\ \E options \in OptionsBags, limit \in Limits :
    LET b == PropertiesQuery(options, limit)
    IN Query("getAllProperties", [options |-> options, limit |-> limit],
             b.queryString, b.queryParams)

addProperty ==
  /\ CanCall
  /\ \E property \in Properties :
    IF ValuesIncludeEmpty(property)
      THEN /\ fn' = "addProperty"
           /\ input' = [property |-> property]
           /\ queryString' = <<>>
           /\ queryParams' = <<>>
           /\ pool' = IdlePool
           /\ promise' = Rejected(IncompleteMessage)
           /\ logged' = <<>>
           /\ prev' = KeepPrev("addProperty")
      ELSE LET b == AddPropertyQuery(property)
           IN Query("addProperty", [property |-> property],
                    b.queryString, b.queryParams)

\* the database answers the statement
PoolResolve ==
  /\ pool.status = "pending"
  /\ \E rows \in RowSets : pool' = [status |-> "resolved", rows |-> rows, err |-> Undefined]
  /\ UNCHANGED <<fn, input, queryString, queryParams, promise, logged, prev>>

\* the statement fails
PoolReject ==
  /\ pool.status = "pending"
  /\ \E err \in Errors : pool' = [status |-> "rejected", rows |-> <<>>, err |-> err]
  /\ UNCHANGED <<fn, input, queryString, queryParams, promise, logged, prev>>

\* a .then callback runs and its return value fulfils the promise
Then(f, value) ==
  /\ fn = f
  /\ promise.state = "pending"
  /\ pool.status = "resolved"
  /\ promise' = Fulfilled(value)
  /\ UNCHANGED <<fn, input, queryString, queryParams, pool, logged, prev>>

\* a .catch callback runs
Catch(f) ==
  /\ fn = f
  /\ promise.state = "pending"
  /\ pool.status = "rejected"
  /\ LET r == OnRejected(LogPrefix(f), pool.err)
     IN /\ promise' = r.promise
        /\ logged' = logged \o r.logged
  /\ UNCHANGED <<fn, input, queryString, queryParams, pool, prev>>

(* The caller receives the settled promise; the locals of the invocation   *)
(* are gone.  An invocation whose query found no row or failed is          *)
(* remembered in prev for the next invocation of the same function.        *)
Return ==
  /\ promise.state \in {"fulfilled", "rejected"}
  /\ prev' = IF Outcome \in {"empty", "failed"}
              THEN [fn |-> fn, outcome |-> Outcome, promise |-> promise]
              ELSE NoPrev
  /\ fn' = "none"
  /\ input' = <<>>
  /\ queryString' = <<>>
  /\ queryParams' = <<>>
  /\ pool' = IdlePool
  /\ promise' = NoPromise
  /\ logged' = <<>>

getUserWithEmailThen == Then("getUserWithEmail", ThenFirstRowOrNull(pool.rows))
getUserWithEmailCatch == Catch("getUserWithEmail")
getUserWithIdThen == Then("getUserWithId", ThenFirstRowOrNull(pool.rows))
getUserWithIdCatch == Catch("getUserWithId")
addUserThen == Then("addUser", ThenFirstRow(pool.rows))
addUserCatch == Catch("addUser")
getAllReservationsThen == Then("getAllReservations", ThenRows(pool.rows))
getAllReservationsCatch == Catch("getAllReservations")
getAllPropertiesThen == Then("getAllProperties", ThenRowsOrNull(pool.rows))
getAllPropertiesCatch == Catch("getAllProperties")
addPropertyThen == Then("addProperty", ThenFirstRowOrNull(pool.rows))
addPropertyCatch == Catch("addProperty")

Next ==
  \/ getUserWithEmail
  \/ getUserWithId
  \/ addUser
  \/ getAllReservations
  \/ getAllProperties
  \/ addProperty
  \/ PoolResolve
  \/ PoolReject
  \/ getUserWithEmailThen
  \/ getUserWithEmailCatch
  \/ getUserWithIdThen
  \/ getUserWithIdCatch
  \/ addUserThen
  \/ addUserCatch
  \/ getAllReservationsThen
  \/ getAllReservationsCatch
  \/ getAllPropertiesThen
  \/ getAllPropertiesCatch
  \/ addPropertyThen
  \/ addPropertyCatch
  \/ Return

Spec == Init /\ [][Next]_vars

TypeOK ==
  /\ fn \in {"none", "getUserWithEmail", "getUserWithId", "addUser",
             "getAllReservations", "getAllProperties", "addProperty"}
  /\ pool.status \in {"idle", "pending", "resolved", "rejected"}
  /\ promise.state \in {"none", "pending", "fulfilled", "rejected"}
  /\ Len(logged) <= 1

----------------------------------------------------------------------------
(* Vocabulary of the properties *)

\* the state right after getAllProperties handed its statement to the pool
IsProps == fn = "getAllProperties"

\* a filter field that is present: not absent, not 0, not the empty string
IsSet(v) == v # Undefined /\ v # Num(0) /\ v # Str(<<>>)

\* the four WHERE-eligible filters in the order of the claim, with the
\* column and the comparison each one is expected to produce
FilterSpecs(options) ==
  <<[value |-> options.city, col |-> "city", op |-> "LIKE"],
    [value |-> options.owner_id, col |-> "owner_id", op |-> "="],
    [value |-> options.minimum_price_per_night, col |-> "cost_per_night", op |-> ">="],
    [value |-> options.maximum_price_per_night, col |-> "cost_per_night", op |-> "<="]>>

IsSetSpec(f) == IsSet(f.value)
SetFilters(options) == SelectSeq(FilterSpecs(options), IsSetSpec)

IsPredicate(f) == f.kw \in {"WHERE", "AND"}
HasPlaceholder(f) == f.ph > 0
\* the predicates of the WHERE phase, in text order
WherePredicates(text) == SelectSeq(text, IsPredicate)
\* the fragments that carry a placeholder, in text order
PlaceholderFrags(text) == SelectSeq(text, HasPlaceholder)

Keywords(text) == [i \in 1..Len(text) |-> text[i].kw]

\* the last parameter expected for a limit argument
ExpectedLimit(limit) == IF limit = Undefined THEN Num(10) ELSE limit

----------------------------------------------------------------------------
(* C1: in the text getAllProperties emits, the predicates of the truthy    *)
(* WHERE-eligible filters appear in the order city, owner_id,              *)
(* minimum_price_per_night, maximum_price_per_night; the first of them is  *)
(* introduced by WHERE and every later one by AND, whatever minimum_rating *)
(* and limit are.                                                          *)
C1_WhereThenAnd ==
  IsProps =>
    LET P == WherePredicates(queryString)
        E == SetFilters(input.options)
    IN /\ Len(P) = Len(E)
       /\ \A i \in 1..Len(P) :
            /\ P[i].col = E[i].col
            /\ P[i].op = E[i].op
            /\ P[i].kw = IF i = 1 THEN "WHERE" ELSE "AND"

C1_Witness ==
  /\ IsProps
  /\ Len(SetFilters(input.options)) = 4
  /\ IsSet(input.options.minimum_rating)
  /\ input.limit # Undefined
  /\ Keywords(WherePredicates(queryString)) = <<"WHERE", "AND", "AND", "AND">>

(* C2: the placeholders of the text are $1..$n in text order, n is the     *)
(* length of the parameter list, and placeholder k stands in the clause    *)
(* whose value is the k-th parameter.                                      *)
C2_ValueOf(f) ==
  CASE f.kw = "LIMIT" -> ExpectedLimit(input.limit)
    [] f.kw = "HAVING" -> input.options.minimum_rating
    [] f.col = "city" -> CityParam(input.options.city)
    [] f.col = "owner_id" -> input.options.owner_id
    [] f.col = "cost_per_night" /\ f.op = ">=" ->
         Num(input.options.minimum_price_per_night.n * 100)
    [] f.col = "cost_per_night" /\ f.op = "<=" ->
         Num(input.options.maximum_price_per_night.n * 100)

C2_PlaceholdersPositional ==
  IsProps =>
    LET F == PlaceholderFrags(queryString)
    IN /\ Len(F) = Len(queryParams)
       /\ \A k \in 1..Len(F) :
            /\ F[k].ph = k
            /\ queryParams[k] = C2_ValueOf(F[k])

C2_Witness ==
  /\ IsProps
  /\ Len(queryParams) = 6
  /\ [k \in 1..6 |-> PlaceholderFrags(queryString)[k].ph] = <<1, 2, 3, 4, 5, 6>>

(* C3: the WHERE clause has as many placeholders as there are truthy       *)
(* WHERE-eligible filters (absent, 0 and '' contribute none); the          *)
(* parameter list has that many elements plus one for the limit plus one   *)
(* if minimum_rating is truthy; with no filter at all there is no WHERE    *)
(* clause and the parameter list is [limit].                               *)
C3_Counts ==
  IsProps =>
    LET n == Len(SetFilters(input.options))
        r == IF IsSet(input.options.minimum_rating) THEN 1 ELSE 0
    IN /\ Len(PlaceholderFrags(WherePredicates(queryString))) = n
       /\ Len(WherePredicates(queryString)) = n
       /\ Len(queryParams) = n + 1 + r
       /\ (n = 0 /\ r = 0) => queryParams = <<ExpectedLimit(input.limit)>>

C3_Witness ==
  /\ IsProps
  /\ input.options.city = Str(<<>>)
  /\ input.options.owner_id = Num(0)
  /\ input.options.maximum_price_per_night = Undefined
  /\ IsSet(input.options.minimum_price_per_night)
  /\ IsSet(input.options.minimum_rating)
  /\ Len(queryParams) = 3

C3_WitnessNoFilter ==
  /\ IsProps
  /\ Len(SetFilters(input.options)) = 0
  /\ ~IsSet(input.options.minimum_rating)
  /\ Len(queryParams) = 1

(* C4, as stated: for every non-empty city filter string the bound city    *)
(* parameter is the incoming string without its first character, wrapped   *)
(* in '%', also when the string has leading or trailing whitespace.        *)
C4_FirstCharDiscarded ==
  (IsProps /\ input.options.city.t = "string" /\ input.options.city.s # <<>>) =>
    queryParams[1] = Str(<<"%">> \o Tail(input.options.city.s) \o <<"%">>)

\* cs without its leading and trailing whitespace: the slice of cs from its
\* first to its last character that is not whitespace
Stripped(cs) ==
  LET solid == {k \in 1..Len(cs) : cs[k] \notin Whitespace}
  IN IF solid = {}
       THEN <<>>
       ELSE SubSeq(cs, CHOOSE i \in solid : \A k \in solid : i <= k,
                       CHOOSE j \in solid : \A k \in solid : k <= j)

(* C4, amended: for every non-empty city filter string the bound city      *)
(* parameter is the incoming string, first stripped of its leading and     *)
(* trailing whitespace and then of the first character that remains,       *)
(* wrapped in '%' on both sides.                                           *)
C4_TrimmedFirstCharDiscarded ==
  (IsProps /\ input.options.city.t = "string" /\ input.options.city.s # <<>>) =>
    LET t == Stripped(input.options.city.s)
        rest == IF t = <<>> THEN <<>> ELSE SubSeq(t, 2, Len(t))
    IN queryParams[1] = Str(<<"%">> \o rest \o <<"%">>)

C4_Witness ==
  /\ IsProps
  /\ input.options.city = Str(<<" ", "#">>)
  /\ queryParams[1] = Str(<<"%", "%">>)

(* C5: addProperty with an empty-string field value hands nothing to       *)
(* pool.query and returns a promise rejected with a readable message.      *)
C5_EmptyFieldRejected ==
  (fn = "addProperty" /\ \E i \in 1..Len(input.property) :
                            input.property[i].value = Str(<<>>)) =>
    /\ pool.status = "idle"
    /\ queryString = <<>>
    /\ queryParams = <<>>
    /\ promise.state = "rejected"
    /\ promise.value.t = "string"
    /\ promise.value.s = <<"Property not added. Incomplete input fields">>

C5_Witness ==
  /\ fn = "addProperty"
  /\ Len(input.property) = 2
  /\ input.property[1].value = Str(<<"V">>)
  /\ input.property[2].value = Str(<<>>)
  /\ promise.state = "rejected"

\* the static prefix each function logs a failure with
C6_Prefix ==
  CASE fn = "getUserWithEmail" -> "Error getting user with email:"
    [] fn = "getUserWithId" -> "Error getting user with id:"
    [] fn = "addUser" -> "Error adding user:"
    [] fn = "getAllReservations" -> "Error getting reservations:"
    [] fn = "getAllProperties" -> "Error getting all properties:"
    [] fn = "addProperty" -> "Error adding property:"

(* C6: in every data-access function a failure of pool.query is caught and *)
(* logged, and the returned promise resolves to undefined; the promise is  *)
(* rejected by nothing but the validation of addProperty, which hands no   *)
(* statement to the pool.                                                  *)
C6_FailureSwallowed ==
  /\ (pool.status = "rejected" /\ promise.state # "pending") =>
       /\ promise.state = "fulfilled"
       /\ promise.value = Undefined
       /\ Len(logged) = 1
       /\ logged[1].prefix = C6_Prefix
       /\ logged[1].detail = IF pool.err.s # <<>> THEN Str(pool.err.s) ELSE pool.err
  /\ promise.state = "rejected" => (fn = "addProperty" /\ pool.status = "idle")
  /\ prev.outcome = "failed" => prev.promise = [state |-> "fulfilled", value |-> Undefined]

C6_Witness ==
  /\ prev.fn = "addProperty"
  /\ prev.outcome = "failed"
  /\ fn = "addProperty"
  /\ pool.status = "rejected"
  /\ promise.state = "fulfilled"
  /\ Len(logged) = 1

Lookups == {"getUserWithEmail", "getUserWithId", "getAllReservations", "getAllProperties"}

\* two consecutive invocations of one lookup function, one of which found
\* no row and the other of which failed, both settled
C7_EmptyAndFailed ==
  /\ fn \in Lookups
  /\ prev.fn = fn
  /\ promise.state \in {"fulfilled", "rejected"}
  /\ {prev.outcome, Outcome} = {"empty", "failed"}

(* C7, as stated: for each lookup function the promise resolves to the     *)
(* same value when the query finds no row as when the query fails.         *)
C7_EmptySameAsFailed ==
  C7_EmptyAndFailed => promise = prev.promise

(* C7, amended: for each lookup function both outcomes resolve, neither    *)
(* rejects, but to different values: a failed query resolves to undefined, *)
(* a query that finds no row resolves to null (getUserWithEmail,           *)
(* getUserWithId, getAllProperties) or to the empty array                  *)
(* (getAllReservations).                                                   *)
C7_EmptyDiffersFromFailed ==
  C7_EmptyAndFailed =>
    LET e == IF Outcome = "empty" THEN promise ELSE prev.promise
        f == IF Outcome = "failed" THEN promise ELSE prev.promise
    IN /\ e.state = "fulfilled"
       /\ f.state = "fulfilled"
       /\ f.value = Undefined
       /\ e.value = IF fn = "getAllReservations" THEN Arr(<<>>) ELSE Null
       /\ e.value # f.value

C7_Witness ==
  /\ C7_EmptyAndFailed
  /\ fn = "getUserWithEmail"
  /\ Outcome = "empty"
  /\ promise.value = Null
  /\ prev.promise.value = Undefined

\* the placeholders of the predicates on column col with comparison op
C8_Bound(col, op) ==
  {queryString[i].ph : i \in {j \in 1..Len(queryString) :
                                 /\ IsPredicate(queryString[j])
                                 /\ queryString[j].col = col
                                 /\ queryString[j].op = op}}

(* C8: a truthy minimum_price_per_night v is bound as v * 100 in one       *)
(* predicate cost_per_night >= $k, a truthy maximum_price_per_night v as   *)
(* v * 100 in one predicate cost_per_night <= $k (100 is bound as 10000);  *)
(* a price filter that is not truthy has no predicate.                     *)
C8_PriceInCents ==
  IsProps =>
    LET lo == input.options.minimum_price_per_night
        hi == input.options.maximum_price_per_night
        los == C8_Bound("cost_per_night", ">=")
        his == C8_Bound("cost_per_night", "<=")
    IN /\ IF IsSet(lo)
            THEN /\ Cardinality(los) = 1
                 /\ \A k \in los : queryParams[k] = Num(lo.n * 100)
            ELSE los = {}
       /\ IF IsSet(hi)
            THEN /\ Cardinality(his) = 1
                 /\ \A k \in his : queryParams[k] = Num(hi.n * 100)
            ELSE his = {}
       /\ lo = Num(100) => \A k \in los : queryParams[k] = Num(10000)

C8_Witness ==
  /\ IsProps
  /\ input.options.minimum_price_per_night = Num(100)
  /\ input.options.maximum_price_per_night = Num(100)
  /\ input.options.city = Undefined
  /\ input.options.owner_id = Undefined
  /\ queryParams[1] = Num(10000)
  /\ queryParams[2] = Num(10000)
  /\ queryString[2].op = ">="
  /\ queryString[3].op = "<="

\* options {city: "#Van", minimum_price_per_night: 50}
C9_ExampleOptions ==
  [city |-> Str(<<"#", "V", "a", "n">>), owner_id |-> Undefined,
   minimum_price_per_night |-> Num(50), maximum_price_per_night |-> Undefined,
   minimum_rating |-> Undefined]

(* C9: the limit is the last element of the parameter list and is bound by *)
(* the last placeholder of the text, the one of the LIMIT clause; when the *)
(* limit argument is omitted that parameter is 10; options                 *)
(* {city: "#Van", minimum_price_per_night: 50} with limit 5 yield the      *)
(* parameters ["%Van%", 5000, 5] (the example is a constant of the         *)
(* builder; it is evaluated in the states between invocations).            *)
C9_LimitLast ==
  /\ IsProps =>
       LET n == Len(queryParams)
           F == PlaceholderFrags(queryString)
       IN /\ n >= 1
          /\ queryParams[n] = ExpectedLimit(input.limit)
          /\ input.limit = Undefined => queryParams[n] = Num(10)
          /\ queryString[Len(queryString)].kw = "LIMIT"
          /\ queryString[Len(queryString)].ph = n
          /\ F[Len(F)] = queryString[Len(queryString)]
          /\ \A i \in 1..(Len(F) - 1) : F[i].ph < n
  /\ fn = "none" =>
       PropertiesQuery(C9_ExampleOptions, Num(5)).queryParams
         = <<Str(<<"%", "V", "a", "n", "%">>), Num(5000), Num(5)>>

C9_Witness ==
  /\ IsProps
  /\ input.limit = Undefined
  /\ IsSet(input.options.city)
  /\ IsSet(input.options.minimum_price_per_night)
  /\ Len(queryParams) = 3
  /\ queryParams[3] = Num(10)

(* C10: the clauses of the text come in the order: the WHERE predicates,   *)
(* one GROUP BY on properties.id, a HAVING on the average rating exactly   *)
(* when minimum_rating is truthy, ORDER BY on the price, LIMIT; the        *)
(* minimum_rating parameter, when there is one, follows every WHERE        *)
(* parameter and immediately precedes the limit.                           *)
C10_ClauseOrder ==
  IsProps =>
    LET n == Len(SetFilters(input.options))
        rated == IsSet(input.options.minimum_rating)
        g == n + 2
        K == Keywords(queryString)
    IN /\ SubSeq(K, 2, n + 1) = Keywords(WherePredicates(queryString))
       /\ \A i \in 1..Len(queryString) : IsPredicate(queryString[i]) => i \in 2..(n + 1)
       /\ SubSeq(K, g, Len(K)) =
            <<"GROUP BY">> \o (IF rated THEN <<"HAVING">> ELSE <<>>) \o <<"ORDER BY", "LIMIT">>
       /\ queryString[g].col = "properties.id"
       /\ queryString[Len(K) - 1].col = "cost_per_night"
       /\ rated =>
            /\ queryString[g + 1].col = "avg(property_reviews.rating)"
            /\ queryString[g + 1].op = ">="
            /\ queryString[g + 1].ph = n + 1
            /\ Len(queryParams) = n + 2
            /\ queryParams[n + 1] = input.options.minimum_rating

C10_Witness ==
  /\ IsProps
  /\ IsSet(input.options.minimum_rating)
  /\ Len(SetFilters(input.options)) = 2
  /\ Keywords(queryString)[4] = "GROUP BY"
  /\ Keywords(queryString)[5] = "HAVING"
  /\ queryParams[3] = input.options.minimum_rating

====
